---- MODULE Spec2Model ----
(***************************************************************************)
(* Model of src/main.py: the Flask handler video_to_drive (POST /download) *)
(* with its helpers get_gdrive_service and get_or_create_folder.           *)
(*                                                                         *)
(* Each request is a process whose position (pc) advances from one access  *)
(* to a shared or external resource to the next: the download directory,   *)
(* the token.pickle cache, the environment, the Drive service.  Purely     *)
(* local statements are folded into the step that precedes them.           *)
(***************************************************************************)
EXTENDS Naturals, Sequences, FiniteSets, TLC

\* ---------------------------------------------------------------- bounds
\* Largest number of chunks of one resumable transfer (file size divided by
\* the chunk size, rounded up).
MaxChunks == 2

\* ------------------------------------------------------------- constants
BadRequest == 400
ServerError == 500
Ok == 200

Requests == {"r1", "r2"}

\* Python's None for the url value, and the values a url can take.
NoneVal == "<None>"
Urls == {"", "u"}

\* What request.get_json() can return: None (JSON null) or a dict that may
\* or may not hold the key "url".
Bodies ==
    {[isNone |-> TRUE, hasUrl |-> FALSE, url |-> ""],
     [isNone |-> FALSE, hasUrl |-> FALSE, url |-> ""]}
    \cup {[isNone |-> FALSE, hasUrl |-> TRUE, url |-> u] : u \in Urls}

\* File names in DOWNLOAD_DIR: "%(title)s.%(ext)s".
Titles == {"a", "b"}
Exts == {"mp4", "webm"}
Filenames == [title : Titles, ext : Exts]
NoFilename == [title |-> "", ext |-> ""]

\* Content of a path of the download directory.
Absent == "absent"
Stale == "stale"

\* Error messages.
MsgUrlRequired == "YouTube URL required"
MsgNotFound == "File not found after download"
MsgRefresh == "refresh failed"
MsgLocked == "Permission denied"
MsgPermission == "permission failed"
MsgNoEnv == "GOOGLE_CREDENTIALS not found in environment variables"

VARIABLES
    pc,          \* position of each request in video_to_drive
    data,        \* request.get_json() of each request
    resp,        \* the HTTP response of each request
    filename,    \* local variable filename
    disk,        \* DOWNLOAD_DIR: path -> content (who wrote it) or Absent
    tokenPickle, \* the file token.pickle
    env,         \* os.getenv("GOOGLE_CREDENTIALS"): "absent" or "present"
    creds,       \* local variable creds of get_gdrive_service
    authPath,    \* branch get_gdrive_service took for the request
    wrote,       \* the request wrote token.pickle
    envRead,     \* the request read GOOGLE_CREDENTIALS
    folders,     \* Drive: the folder objects, in the provider's list order
    folderId,    \* local variable folder_id
    existed,     \* a live folder of that name existed when the request listed
    remote,      \* Drive: the uploaded file objects
    response,    \* local variable response: id of the created object, or ""
    chunks,      \* chunks of the transfer that are still to be sent
    ops          \* external operations each request has attempted

vars == <<pc, data, resp, filename, disk, tokenPickle, env, creds, authPath,
          wrote, envRead, folders, folderId, existed, remote, response, chunks,
          ops>>

\* --------------------------------------------------------- credentials
\* google.oauth2.credentials.Credentials: valid = token present and not
\* expired.  by names the flow that issued the token.
NoCreds == [present |-> FALSE, token |-> FALSE, expired |-> FALSE,
            refresh_token |-> FALSE, by |-> "none"]

CachedCreds ==
    {[present |-> TRUE, token |-> TRUE, expired |-> FALSE,
      refresh_token |-> TRUE, by |-> "cache"],
     [present |-> TRUE, token |-> TRUE, expired |-> TRUE,
      refresh_token |-> TRUE, by |-> "cache"],
     [present |-> TRUE, token |-> TRUE, expired |-> TRUE,
      refresh_token |-> FALSE, by |-> "cache"],
     [present |-> TRUE, token |-> FALSE, expired |-> FALSE,
      refresh_token |-> TRUE, by |-> "cache"]}

CredsValid(c) == c.token /\ ~c.expired

FreshCreds(r) == [present |-> TRUE, token |-> TRUE, expired |-> FALSE,
                  refresh_token |-> TRUE, by |-> r]

\* ---------------------------------------------------------------- Drive
FolderName == "YouTubeSong"

InitFolders ==
    {<<>>,
     <<[id |-> "f0", name |-> FolderName, trashed |-> FALSE]>>,
     <<[id |-> "f0", name |-> "Other", trashed |-> FALSE]>>,
     <<[id |-> "f0", name |-> FolderName, trashed |-> TRUE],
       [id |-> "f1", name |-> FolderName, trashed |-> FALSE]>>,
     <<[id |-> "f0", name |-> FolderName, trashed |-> FALSE],
       [id |-> "f1", name |-> FolderName, trashed |-> FALSE]>>}


NewFolderId(r) == "folder-" \o r
NewFileId(r) == "file-" \o r

\* by: "handler" for a response the view function returned, "framework" for
\* the answer to an exception that left the view function.
NoResp == [status |-> 0, by |-> "", error |-> "", file_id |-> "",
           file_name |-> NoFilename]

Init ==
    /\ pc = [r \in Requests |-> "idle"]
    /\ data = [r \in Requests |-> [isNone |-> TRUE, hasUrl |-> FALSE, url |-> ""]]
    /\ resp = [r \in Requests |-> NoResp]
    /\ filename = [r \in Requests |-> NoFilename]
    /\ disk \in {[f \in Filenames |-> Absent],
                 [f \in Filenames |->
                    IF f = [title |-> "a", ext |-> "mp4"] THEN Stale ELSE Absent]}
    /\ tokenPickle \in {NoCreds} \cup CachedCreds
    /\ env \in {"absent", "present"}
    /\ creds = [r \in Requests |-> NoCreds]
    /\ authPath = [r \in Requests |-> "none"]
    /\ wrote = [r \in Requests |-> FALSE]
    /\ envRead = [r \in Requests |-> FALSE]
    /\ folders \in InitFolders
    /\ folderId = [r \in Requests |-> ""]
    /\ existed = [r \in Requests |-> FALSE]
    /\ remote = {}
    /\ response = [r \in Requests |-> ""]
    /\ chunks = [r \in Requests |-> 0]
    /\ ops = [r \in Requests |-> {}]

\* ------------------------------------------------------------ responses
\* return jsonify({"error": msg}), status
Respond(r, status, msg) ==
    /\ resp' = [resp EXCEPT ![r] = [status |-> status, by |-> "handler",
                                    error |-> msg,
                                    file_id |-> "", file_name |-> NoFilename]]
    /\ pc' = [pc EXCEPT ![r] = "done"]

\* except Exception as e: return jsonify({"error": str(e)}), 500
Fail(r, msg) == Respond(r, ServerError, msg)

\* return jsonify({"message", "file_id", "file_name", "public_link"})
Respond200(r) ==
    /\ resp' = [resp EXCEPT ![r] = [status |-> Ok, by |-> "handler",
                                    error |-> "",
                                    file_id |-> response[r],
                                    file_name |-> filename[r]]]
    /\ pc' = [pc EXCEPT ![r] = "done"]

\* An exception raised outside the try block leaves the view function; the
\* framework answers it with its own 500 page.
Escape(r, msg) ==
    /\ resp' = [resp EXCEPT ![r] = [status |-> ServerError, by |-> "framework",
                                    error |-> msg,
                                    file_id |-> "", file_name |-> NoFilename]]
    /\ pc' = [pc EXCEPT ![r] = "done"]

Attempt(r, op) == ops' = [ops EXCEPT ![r] = @ \cup {op}]

\* ----------------------------------------------------------- validation
\* data.get("url")
GetUrl(d) == IF d.hasUrl THEN d.url ELSE NoneVal

\* not url
Falsy(u) == u = NoneVal \/ u = ""

\* Lines 71-76.
Receive(r) ==
    /\ pc[r] = "idle"
    /\ \E b \in Bodies :
         /\ data' = [data EXCEPT ![r] = b]
         /\ IF b.isNone
               THEN Escape(r, "'NoneType' object has no attribute 'get'")
               ELSE IF Falsy(GetUrl(b))
                       THEN Respond(r, BadRequest, MsgUrlRequired)
                       ELSE /\ pc' = [pc EXCEPT ![r] = "download"]
                            /\ UNCHANGED resp
    /\ UNCHANGED <<filename, disk, tokenPickle, env, creds, authPath, wrote,
                   envRead, folders, folderId, existed, remote, response,
                   chunks, ops>>

\* ------------------------------------------------------------- download
\* if not filename.endswith(".mp4"): filename = stem + ".mp4"
NormalizeMp4(f) == IF f.ext = "mp4" THEN f ELSE [f EXCEPT !.ext = "mp4"]

\* Mutant: the existence test always passes.
ExistsAlways(d, f) == TRUE

\* os.path.exists(filename)
Exists(d, f) == d[f] # Absent

\* Lines 87-91: the extraction tool raises, or returns the info of a media
\* with some title and extension, having written the file or not.
Download(r) ==
    /\ pc[r] = "download"
    /\ Attempt(r, "download")
    /\ \/ /\ Fail(r, "download failed")
          /\ UNCHANGED <<filename, disk>>
       \/ \E f \in Filenames, written \in BOOLEAN :
            /\ disk' = IF written THEN [disk EXCEPT ![f] = r] ELSE disk
            /\ filename' = [filename EXCEPT ![r] = NormalizeMp4(f)]
            /\ pc' = [pc EXCEPT ![r] = "check_file"]
            /\ UNCHANGED resp
    /\ UNCHANGED <<data, tokenPickle, env, creds, authPath, wrote, envRead,
                   folders, folderId, existed, remote, response, chunks>>

\* Lines 93-94.
CheckFile(r) ==
    /\ pc[r] = "check_file"
    /\ IF Exists(disk, filename[r])
          THEN /\ pc' = [pc EXCEPT ![r] = "auth_load"]
               /\ UNCHANGED resp
          ELSE Respond(r, ServerError, MsgNotFound)
    /\ UNCHANGED <<data, filename, disk, tokenPickle, env, creds, authPath,
                   wrote, envRead, folders, folderId, existed, remote, response,
                   chunks, ops>>

\* ------------------------------------------------------- authentication
\* creds and creds.expired and creds.refresh_token
Refreshable(c) == c.present /\ c.expired /\ c.refresh_token

\* Lines 34-37: the branch get_gdrive_service takes for the loaded creds.
Branch(c) ==
    IF c.present /\ CredsValid(c) THEN "cached"
    ELSE IF Refreshable(c) THEN "refresh"
    ELSE "acquire"

\* Mutant: the save of lines 49-51 is reached on the valid-cache path too.
AfterLoadAlwaysSave(b) ==
    CASE b = "cached" -> "auth_save"
      [] b = "refresh" -> "auth_refresh"
      [] OTHER -> "auth_acquire"

\* Where the branch continues.
AfterLoad(b) ==
    CASE b = "cached" -> "folder_list"
      [] b = "refresh" -> "auth_refresh"
      [] OTHER -> "auth_acquire"

\* Mutant: the test of the bootstrap secret is dropped.
EnvNeverMissing(e) == FALSE

\* not creds_json
EnvMissing(e) == e = "absent"

\* Lines 29-35: read token.pickle when it exists and branch on the result.
AuthLoad(r) ==
    /\ pc[r] = "auth_load"
    /\ Attempt(r, "auth")
    /\ creds' = [creds EXCEPT ![r] = tokenPickle]
    /\ authPath' = [authPath EXCEPT ![r] = Branch(tokenPickle)]
    /\ pc' = [pc EXCEPT ![r] = AfterLoad(Branch(tokenPickle))]
    /\ UNCHANGED <<data, resp, filename, disk, tokenPickle, env, wrote,
                   envRead, folders, folderId, existed, remote, response,
                   chunks>>

\* Line 36: creds.refresh(Request()) succeeds, or raises.
AuthRefresh(r) ==
    /\ pc[r] = "auth_refresh"
    /\ \/ /\ creds' = [creds EXCEPT ![r] =
                          [@ EXCEPT !.token = TRUE, !.expired = FALSE, !.by = r]]
          /\ pc' = [pc EXCEPT ![r] = "auth_save"]
          /\ UNCHANGED resp
       \/ /\ Fail(r, MsgRefresh)
          /\ UNCHANGED creds
    /\ UNCHANGED <<data, filename, disk, tokenPickle, env, authPath, wrote,
                   envRead, folders, folderId, existed, remote, response,
                   chunks, ops>>

\* Lines 39-47: read the bootstrap secret and run the interactive flow.
AuthAcquire(r) ==
    /\ pc[r] = "auth_acquire"
    /\ envRead' = [envRead EXCEPT ![r] = TRUE]
    /\ IF EnvMissing(env)
          THEN /\ Fail(r, MsgNoEnv)
               /\ UNCHANGED creds
          ELSE \/ /\ creds' = [creds EXCEPT ![r] = FreshCreds(r)]
                  /\ pc' = [pc EXCEPT ![r] = "auth_save"]
                  /\ UNCHANGED resp
               \/ /\ Fail(r, "authorization flow failed")
                  /\ UNCHANGED creds
    /\ UNCHANGED <<data, filename, disk, tokenPickle, env, authPath, wrote,
                   folders, folderId, existed, remote, response, chunks, ops>>

\* Mutant: the save keeps a valid credential another request has written.
AuthSaveFirstWins(r) ==
    /\ pc[r] = "auth_save"
    /\ tokenPickle' = IF tokenPickle.present /\ CredsValid(tokenPickle)
                         THEN tokenPickle
                         ELSE creds[r]
    /\ wrote' = [wrote EXCEPT ![r] = TRUE]
    /\ pc' = [pc EXCEPT ![r] = "folder_list"]
    /\ UNCHANGED <<data, resp, filename, disk, env, creds, authPath, envRead,
                   folders, folderId, existed, remote, response, chunks, ops>>

\* Lines 50-53: pickle.dump(creds, token), then build the service.
AuthSave(r) ==
    /\ pc[r] = "auth_save"
    /\ tokenPickle' = creds[r]
    /\ wrote' = [wrote EXCEPT ![r] = TRUE]
    /\ pc' = [pc EXCEPT ![r] = "folder_list"]
    /\ UNCHANGED <<data, resp, filename, disk, env, creds, authPath, envRead,
                   folders, folderId, existed, remote, response, chunks, ops>>

\* ---------------------------------------------------- folder resolution
\* Mutant: the query forgets trashed=false.
MatchesTrashed(f, name) == f.name = name

\* Line 57: name='...' and mimeType=folder and trashed=false
Matches(f, name) == f.name = name /\ ~f.trashed

\* Lines 58-59: the matching folders, in the provider's order.
Query(fs, name) == SelectSeq(fs, LAMBDA f : Matches(f, name))

\* The identifiers of the folders named FolderName that are not trashed.
LiveFolders(fs) ==
    {fs[i].id : i \in {j \in DOMAIN fs :
                         fs[j].name = FolderName /\ fs[j].trashed = FALSE}}

\* Lines 58-61: list; a match ends the resolution with files[0]["id"].
FolderList(r) ==
    /\ pc[r] = "folder_list"
    /\ Attempt(r, "folder_list")
    /\ \/ /\ Fail(r, "folder lookup failed")
          /\ UNCHANGED <<folderId, existed>>
       \/ LET files == Query(folders, FolderName) IN
            /\ existed' = [existed EXCEPT ![r] = LiveFolders(folders) # {}]
            /\ IF files # <<>>
                  THEN /\ folderId' = [folderId EXCEPT ![r] = files[1].id]
                       /\ pc' = [pc EXCEPT ![r] = "upload_open"]
                       /\ UNCHANGED resp
                  ELSE /\ pc' = [pc EXCEPT ![r] = "folder_create"]
                       /\ UNCHANGED <<resp, folderId>>
    /\ UNCHANGED <<data, filename, disk, tokenPickle, env, creds, authPath,
                   wrote, envRead, folders, remote, response, chunks>>

\* Mutant: the creation is conditional on the folder still being absent.
FolderCreateIfAbsent(r) ==
    /\ pc[r] = "folder_create"
    /\ Attempt(r, "folder_create")
    /\ \/ /\ Fail(r, "folder creation failed")
          /\ UNCHANGED <<folders, folderId>>
       \/ /\ IF Query(folders, FolderName) # <<>>
                THEN /\ folderId' = [folderId EXCEPT ![r] =
                                        Query(folders, FolderName)[1].id]
                     /\ UNCHANGED folders
                ELSE /\ folders' = Append(folders, [id |-> NewFolderId(r),
                                                    name |-> FolderName,
                                                    trashed |-> FALSE])
                     /\ folderId' = [folderId EXCEPT ![r] = NewFolderId(r)]
          /\ pc' = [pc EXCEPT ![r] = "upload_open"]
          /\ UNCHANGED resp
    /\ UNCHANGED <<data, filename, disk, tokenPickle, env, creds, authPath,
                   wrote, envRead, existed, remote, response, chunks>>

\* Lines 64-66: create the folder and return its id.
FolderCreate(r) ==
    /\ pc[r] = "folder_create"
    /\ Attempt(r, "folder_create")
    /\ \/ /\ Fail(r, "folder creation failed")
          /\ UNCHANGED <<folders, folderId>>
       \/ /\ folders' = Append(folders, [id |-> NewFolderId(r),
                                         name |-> FolderName,
                                         trashed |-> FALSE])
          /\ folderId' = [folderId EXCEPT ![r] = NewFolderId(r)]
          /\ pc' = [pc EXCEPT ![r] = "upload_open"]
          /\ UNCHANGED resp
    /\ UNCHANGED <<data, filename, disk, tokenPickle, env, creds, authPath,
                   wrote, envRead, existed, remote, response, chunks>>

\* --------------------------------------------------------------- upload
\* Lines 100-111: MediaFileUpload opens the local file and takes its size;
\* the create request is only built here.
UploadOpen(r) ==
    /\ pc[r] = "upload_open"
    /\ IF Exists(disk, filename[r])
          THEN /\ \E n \in 1..MaxChunks : chunks' = [chunks EXCEPT ![r] = n]
               /\ pc' = [pc EXCEPT ![r] = "upload"]
               /\ UNCHANGED resp
          ELSE /\ Fail(r, "No such file or directory")
               /\ UNCHANGED chunks
    /\ UNCHANGED <<data, filename, disk, tokenPickle, env, creds, authPath,
                   wrote, envRead, folders, folderId, existed, remote, response,
                   ops>>

\* The Drive object a completed transfer creates.
Created(r) == [id |-> NewFileId(r), name |-> filename[r],
               parent |-> folderId[r], public |-> FALSE]

\* Mutant: the transfer starts over instead of completing with its last
\* chunk.
NextChunkRestart(r) ==
    /\ pc[r] = "upload"
    /\ response[r] = ""
    /\ Attempt(r, "upload")
    /\ \/ /\ Fail(r, "upload failed")
          /\ UNCHANGED <<remote, response, chunks>>
       \/ /\ chunks[r] > 1
          /\ chunks' = [chunks EXCEPT ![r] = @ - 1]
          /\ UNCHANGED <<pc, resp, remote, response>>
       \/ /\ chunks[r] = 1
          /\ chunks' = [chunks EXCEPT ![r] = MaxChunks]
          /\ UNCHANGED <<pc, resp, remote, response>>
    /\ UNCHANGED <<data, filename, disk, tokenPickle, env, creds, authPath,
                   wrote, envRead, folders, folderId, existed>>

\* Lines 113-119: one next_chunk() call: it raises, it reports progress
\* without a response (chunks remain), or it sends the last chunk and returns
\* the response of the completed transfer.
NextChunk(r) ==
    /\ pc[r] = "upload"
    /\ response[r] = ""
    /\ Attempt(r, "upload")
    /\ \/ /\ Fail(r, "upload failed")
          /\ UNCHANGED <<remote, response, chunks>>
       \/ /\ chunks[r] > 1
          /\ chunks' = [chunks EXCEPT ![r] = @ - 1]
          /\ UNCHANGED <<pc, resp, remote, response>>
       \/ /\ chunks[r] = 1
          /\ chunks' = [chunks EXCEPT ![r] = 0]
          /\ remote' = remote \cup {Created(r)}
          /\ response' = [response EXCEPT ![r] = NewFileId(r)]
          /\ pc' = [pc EXCEPT ![r] = "make_public"]
          /\ UNCHANGED resp
    /\ UNCHANGED <<data, filename, disk, tokenPickle, env, creds, authPath,
                   wrote, envRead, folders, folderId, existed>>

\* Mutant: the permission call is answered without granting anything.
GrantNothing(rem, fileId) == rem

\* body={"role": "reader", "type": "anyone"} on the object fileId
Grant(rem, fileId) ==
    {IF o.id = fileId THEN [o EXCEPT !.public = TRUE] ELSE o : o \in rem}

\* Mutant: a failed permission step deletes the object it could not publish.
MakePublicRollback(r) ==
    /\ pc[r] = "make_public"
    /\ Attempt(r, "permission")
    /\ \/ /\ Fail(r, MsgPermission)
          /\ remote' = {o \in remote : o.id # response[r]}
       \/ /\ remote' = Grant(remote, response[r])
          /\ pc' = [pc EXCEPT ![r] = "cleanup"]
          /\ UNCHANGED resp
    /\ UNCHANGED <<data, filename, disk, tokenPickle, env, creds, authPath,
                   wrote, envRead, folders, folderId, existed, response, chunks>>

\* Lines 121-134: close the file handles (errors are only printed), then
\* create the permission; a failure of the latter reaches the except block.
MakePublic(r) ==
    /\ pc[r] = "make_public"
    /\ Attempt(r, "permission")
    /\ \/ /\ Fail(r, MsgPermission)
          /\ UNCHANGED remote
       \/ /\ remote' = Grant(remote, response[r])
          /\ pc' = [pc EXCEPT ![r] = "cleanup"]
          /\ UNCHANGED resp
    /\ UNCHANGED <<data, filename, disk, tokenPickle, env, creds, authPath,
                   wrote, envRead, folders, folderId, existed, response, chunks>>

\* -------------------------------------------------------------- cleanup
\* Mutant: the cleanup empties the download directory.
UnlinkAll(d, f) == [g \in DOMAIN d |-> Absent]

\* Mutant: the removal reports success and leaves the file.
UnlinkNothing(d, f) == d

\* os.remove(filename) when it succeeds
Unlink(d, f) == [d EXCEPT ![f] = Absent]

\* Lines 137-138, 146-151: without a file there is nothing to remove.
Cleanup(r) ==
    /\ pc[r] = "cleanup"
    /\ IF Exists(disk, filename[r])
          THEN /\ pc' = [pc EXCEPT ![r] = "remove"]
               /\ UNCHANGED resp
          ELSE Respond200(r)
    /\ UNCHANGED <<data, filename, disk, tokenPickle, env, creds, authPath,
                   wrote, envRead, folders, folderId, existed, remote, response,
                   chunks, ops>>

\* Lines 139-142, 146-151: the first os.remove: it succeeds, it raises
\* PermissionError (the file is locked), or the file is gone meanwhile.
Remove(r) ==
    /\ pc[r] = "remove"
    /\ Attempt(r, "delete")
    /\ IF Exists(disk, filename[r])
          THEN \/ /\ disk' = Unlink(disk, filename[r])
                  /\ Respond200(r)
               \/ /\ pc' = [pc EXCEPT ![r] = "cleanup_retry"]
                  /\ UNCHANGED <<resp, disk>>
          ELSE /\ Fail(r, "No such file or directory")
               /\ UNCHANGED disk
    /\ UNCHANGED <<data, filename, tokenPickle, env, creds, authPath, wrote,
                   envRead, folders, folderId, existed, remote, response,
                   chunks>>

\* Mutant: the failure of the second os.remove is swallowed.
CleanupRetrySwallow(r) ==
    /\ pc[r] = "cleanup_retry"
    /\ Attempt(r, "delete_retry")
    /\ \/ /\ disk' = Unlink(disk, filename[r])
          /\ Respond200(r)
       \/ /\ Respond200(r)
          /\ UNCHANGED disk
    /\ UNCHANGED <<data, filename, tokenPickle, env, creds, authPath, wrote,
                   envRead, folders, folderId, existed, remote, response,
                   chunks>>

\* Lines 143-151: after the sleep, the second and last os.remove.
CleanupRetry(r) ==
    /\ pc[r] = "cleanup_retry"
    /\ Attempt(r, "delete_retry")
    /\ IF Exists(disk, filename[r])
          THEN \/ /\ disk' = Unlink(disk, filename[r])
                  /\ Respond200(r)
               \/ /\ Fail(r, MsgLocked)
                  /\ UNCHANGED disk
          ELSE /\ Fail(r, "No such file or directory")
               /\ UNCHANGED disk
    /\ UNCHANGED <<data, filename, tokenPickle, env, creds, authPath, wrote,
                   envRead, folders, folderId, existed, remote, response,
                   chunks>>

\* ------------------------------------------------------- specification
Next ==
    \E r \in Requests :
       \/ Receive(r)
       \/ Download(r)
       \/ CheckFile(r)
       \/ AuthLoad(r)
       \/ AuthRefresh(r)
       \/ AuthAcquire(r)
       \/ AuthSave(r)
       \/ FolderList(r)
       \/ FolderCreate(r)
       \/ UploadOpen(r)
       \/ NextChunk(r)
       \/ MakePublic(r)
       \/ Cleanup(r)
       \/ Remove(r)
       \/ CleanupRetry(r)

Spec == Init /\ [][Next]_vars

\* The steps of the handler of one request, once the request is received.
Handler(r) ==
    \/ Download(r)
    \/ CheckFile(r)
    \/ AuthLoad(r)
    \/ AuthRefresh(r)
    \/ AuthAcquire(r)
    \/ AuthSave(r)
    \/ FolderList(r)
    \/ FolderCreate(r)
    \/ UploadOpen(r)
    \/ NextChunk(r)
    \/ MakePublic(r)
    \/ Cleanup(r)
    \/ Remove(r)
    \/ CleanupRetry(r)

\* The initial states the termination is checked from: an empty download
\* directory, no cached credential or an expired one that can be refreshed
\* (a valid one appears once a request has saved it), and at most one folder
\* on the provider, the wanted one.
InitFair ==
    /\ Init
    /\ \A f \in Filenames : disk[f] = Absent
    /\ ~CredsValid(tokenPickle)
    /\ tokenPickle.present => Refreshable(tokenPickle)
    /\ \A i \in DOMAIN folders : i = 1 /\ Matches(folders[i], FolderName)

\* Every external call returns and the worker of a received request keeps
\* running; whether a request arrives at all is left open.
FairSpec ==
    /\ InitFair
    /\ [][Next]_vars
    /\ \A r \in Requests : WF_vars(Handler(r))

\* ================================================================ claims
Done(r) == pc[r] = "done"

\* The request runs on its own: no other request was ever received.
Alone(r) == \A q \in Requests \ {r} : pc[q] = "idle"

\* The url of the request is missing (no JSON object, or no key) or empty.
UrlMissingOrEmpty(r) ==
    \/ data[r].isNone
    \/ ~data[r].hasUrl
    \/ data[r].url = ""

\* The operations issued to the storage provider.
StorageOps == {"folder_list", "folder_create", "upload", "permission"}

\* C1: every finished request whose url is missing or empty was answered
\* with 400 and attempted no download nor any later step.
C1_MissingUrlIs400 ==
    \A r \in Requests :
       Done(r) /\ UrlMissingOrEmpty(r)
          => resp[r].status = BadRequest /\ ops[r] = {}

\* C2: a request answered with 200 names a remote object that exists (the
\* transfer completed) and is already public (the permission was granted).
C2_OkIsPublic ==
    \A r \in Requests :
       resp[r].status = Ok
          => /\ "permission" \in ops[r]
             /\ \E o \in remote : o.id = resp[r].file_id /\ o.public

C2_Witness == \E r \in Requests : resp[r].status = Ok /\ chunks[r] = 0

C4_FileGoneAfterUploadAttempt ==
    \A r \in Requests :
       Done(r) /\ Alone(r) /\ "upload" \in ops[r]
          => disk[filename[r]] = Absent

\* C5: when the check after the download finds no file at the normalized
\* path, the request ends with 500 "File not found after download" and has
\* attempted nothing but the download.
C5_Step ==
    \A r \in Requests :
       pc[r] = "check_file" /\ pc'[r] # "check_file"
         /\ disk[filename[r]] = Absent
          => /\ pc'[r] = "done"
             /\ resp'[r].status = ServerError
             /\ resp'[r].error = MsgNotFound
             /\ ops'[r] = {"download"}

C5_NoFileNoUpload ==
    /\ [][C5_Step]_vars
    /\ [](\A r \in Requests :
             Done(r) /\ resp[r].error = MsgNotFound => ops[r] = {"download"})

C5_Witness ==
    \E r \in Requests :
       /\ resp[r].error = MsgNotFound
       /\ filename[r].ext = "mp4"
       /\ disk[[filename[r] EXCEPT !.ext = "webm"]] = r

\* The credential the request loaded is neither valid nor refreshable.
NeedsBootstrap(c) ==
    /\ ~(c.present /\ c.token /\ ~c.expired)
    /\ ~(c.present /\ c.expired /\ c.refresh_token)

\* C6: with the bootstrap secret absent and no valid or refreshable cached
\* credential, the request issues no folder lookup, folder creation, upload
\* or permission operation, and ends with the 500 of the missing secret.
C6_NoSecretNoStorageOp ==
    \A r \in Requests :
       "auth" \in ops[r] /\ NeedsBootstrap(creds[r]) /\ env = "absent"
          => /\ ops[r] \cap StorageOps = {}
             /\ pc[r] \in {"auth_acquire", "done"}
             /\ Done(r) => /\ resp[r].status = ServerError
                           /\ resp[r].error = MsgNoEnv

C6_Witness ==
    \E r \in Requests :
       /\ "auth" \in ops[r] /\ NeedsBootstrap(creds[r]) /\ env = "absent"
       /\ Done(r) /\ envRead[r]

\* C7: a request whose cached credential is expired with a refresh token
\* never ends with the refresh error: a failed refresh goes on to
\* re-acquisition.
C7_RefreshFailureFallsThrough ==
    \A r \in Requests :
       Done(r) /\ creds[r].present /\ creds[r].expired /\ creds[r].refresh_token
          => resp[r].error # MsgRefresh

\* C8: a resolution that listed while a live folder of the name existed
\* creates no folder and returns the identifier of such a folder, and two
\* such resolutions return the same identifier.
C8_ResolveIdempotent ==
    \A r \in Requests :
       existed[r]
          => /\ "folder_create" \notin ops[r]
             /\ pc[r] # "folder_create"
             /\ \A i \in DOMAIN folders : folders[i].id # NewFolderId(r)
             /\ folderId[r] \in LiveFolders(folders)
             /\ \A q \in Requests : existed[q] => folderId[q] = folderId[r]

C8_Witness ==
    /\ \A r \in Requests : existed[r] /\ folderId[r] = "f1"
    /\ Len(folders) = 2

\* C9: every finished request was answered by the handler itself; 400 is
\* given only to a missing or empty url, and every failure after validation
\* is a 500 that carries a message.
C9_EveryFailureIsHandled ==
    \A r \in Requests :
       Done(r)
          => /\ resp[r].by = "handler"
             /\ resp[r].status \in {Ok, BadRequest, ServerError}
             /\ resp[r].status = BadRequest <=> ops[r] = {}
             /\ resp[r].status = BadRequest => UrlMissingOrEmpty(r)
             /\ resp[r].status = ServerError => resp[r].error # ""

\* C10: on the valid-cache path the credential is returned as loaded, the
\* cache file is not written and the bootstrap secret is not read; the file
\* is written only by a request that refreshed or re-acquired.
C10_Step ==
    \A r \in Requests :
       /\ pc[r] = "auth_load" /\ pc'[r] # "auth_load"
            /\ tokenPickle.present /\ tokenPickle.token /\ ~tokenPickle.expired
          => /\ creds'[r] = tokenPickle
             /\ tokenPickle' = tokenPickle
             /\ pc'[r] = "folder_list"
       /\ authPath[r] = "cached" => creds'[r] = creds[r]

C10_ValidCacheUntouched ==
    /\ [][C10_Step]_vars
    /\ [](\A r \in Requests :
             /\ authPath[r] = "cached" => ~wrote[r] /\ ~envRead[r]
             /\ wrote[r] => /\ authPath[r] \in {"refresh", "acquire"}
                            /\ tokenPickle.by \in Requests)

C10_Witness ==
    \E r \in Requests :
       /\ authPath[r] = "cached" /\ creds[r].by = "cache"
       /\ pc[r] = "done" /\ resp[r].status = Ok

\* The remote object the transfer of the request created is in place.
Uploaded(r, public) ==
    \E o \in remote : o.id = response[r] /\ o.public = public

\* C11: the first os.remove ends the cleanup or, when the file is locked,
\* leads to one retry; the retry is the last attempt: it removes the file and
\* the request is answered 200, or it fails and the request is answered 500
\* with the file left and the remote object still uploaded and public.
C11_Step ==
    \A r \in Requests :
       /\ pc[r] = "remove" /\ pc'[r] # "remove" /\ disk[filename[r]] # Absent
          => \/ /\ pc'[r] = "done" /\ resp'[r].status = Ok
                /\ disk'[filename[r]] = Absent
             \/ /\ pc'[r] = "cleanup_retry" /\ disk' = disk
                /\ "delete_retry" \notin ops'[r]
       /\ pc[r] = "cleanup_retry" /\ ops'[r] # ops[r]
          => /\ pc'[r] = "done"
             /\ remote' = remote
             /\ \/ resp'[r].status = Ok /\ disk'[filename[r]] = Absent
                \/ resp'[r].status = ServerError /\ disk' = disk

C11_RetryOnce ==
    /\ [][C11_Step]_vars
    /\ [](\A r \in Requests :
             "delete_retry" \in ops[r]
                => /\ Done(r)
                   /\ "delete" \in ops[r]
                   /\ Uploaded(r, TRUE))

C11_Witness ==
    \E r \in Requests :
       /\ Done(r) /\ resp[r].status = ServerError /\ resp[r].error = MsgLocked
       /\ "delete_retry" \in ops[r]
       /\ disk[filename[r]] # Absent
       /\ Uploaded(r, TRUE)

\* C12: a permission step that fails after the transfer completed ends the
\* request with 500 and leaves the remote object in place and not public; no
\* step ever removes a remote object, so every request that fails after its
\* transfer completed leaves its object on the provider.
C12_Step ==
    /\ \A r \in Requests :
          pc[r] = "make_public" /\ pc'[r] = "done"
             => /\ resp'[r].status = ServerError
                /\ resp'[r].error = MsgPermission
                /\ remote' = remote
                /\ \E o \in remote' : o.id = response[r] /\ ~o.public
    /\ \A o \in remote : \E n \in remote' : n.id = o.id

C12_NoRollback ==
    /\ [][C12_Step]_vars
    /\ [](\A r \in Requests :
             Done(r) /\ response[r] # "" /\ resp[r].status = ServerError
                => /\ \E o \in remote : o.id = response[r]
                   /\ resp[r].error = MsgPermission => Uploaded(r, FALSE))

C12_Witness ==
    \E r \in Requests :
       /\ Done(r) /\ resp[r].status = ServerError
       /\ resp[r].error = MsgPermission
       /\ Uploaded(r, FALSE)

\* The resolution of the request listed no live folder and went on to
\* return an identifier.
ResolvedByCreate(r) ==
    /\ "folder_create" \in ops[r]
    /\ ~existed[r]
    /\ folderId[r] # ""

\* C13: two resolutions that both listed no folder both create one: they
\* return different identifiers and both folders exist, live, under the
\* same name.
C13_BothCreate ==
    \A r, q \in Requests :
       r # q /\ ResolvedByCreate(r) /\ ResolvedByCreate(q)
          => /\ folderId[r] # folderId[q]
             /\ {folderId[r], folderId[q]} \subseteq LiveFolders(folders)
             /\ Cardinality(LiveFolders(folders)) >= 2

C13_Witness ==
    /\ \A r \in Requests : ResolvedByCreate(r)
    /\ \E r, q \in Requests : folderId[r] # folderId[q]
    /\ Cardinality(LiveFolders(folders)) = 2

\* The request has its local file (the check after the download passed) and
\* its upload has not completed yet.
InFlight(r) ==
    pc[r] \in {"auth_load", "auth_refresh", "auth_acquire", "auth_save",
               "folder_list", "folder_create", "upload_open", "upload"}

\* C14: the local file of a request in flight is changed under it by the
\* download or the cleanup of another request, and only of one whose output
\* resolved to the same path.
C14_Step ==
    \A r \in Requests :
       InFlight(r) /\ disk'[filename[r]] # disk[filename[r]]
          => \E q \in Requests \ {r} :
                /\ filename'[q] = filename[r]
                /\ \/ pc[q] = "download" /\ disk'[filename[r]] = q
                   \/ /\ pc[q] \in {"remove", "cleanup_retry"}
                      /\ disk'[filename[r]] = Absent

C14_SharedPathInterference == [][C14_Step]_vars

\* One request's cleanup has deleted the file the other still has to
\* upload, after the latter's own download had written it.
C14_Witness ==
    \E r, q \in Requests :
       /\ r # q
       /\ pc[r] \in {"upload_open", "upload"}
       /\ filename[q] = filename[r]
       /\ disk[filename[r]] = Absent
       /\ Done(q) /\ resp[q].status = Ok

\* The request found no valid cached credential and its refresh or
\* acquisition has succeeded.
Renewed(r) ==
    /\ authPath[r] \in {"refresh", "acquire"}
    /\ creds[r].by = r

\* C15: every request that renewed the credential writes the cache file, and
\* each write replaces the whole content, whatever another request wrote
\* before: after two writes the file holds the credential of one request
\* only, that of the last writer.
C15_Step ==
    \A r \in Requests :
       pc[r] = "auth_save" /\ pc'[r] # "auth_save"
          => /\ tokenPickle' = creds[r]
             /\ wrote'[r]

C15_LastWriterWins ==
    /\ [][C15_Step]_vars
    /\ [](\A r \in Requests :
             /\ Renewed(r) => pc[r] = "auth_save" \/ wrote[r]
             /\ \A q \in Requests \ {r} :
                   wrote[r] /\ wrote[q]
                      => /\ creds[r] # creds[q]
                         /\ tokenPickle \in {creds[r], creds[q]})

\* Both requests renewed and wrote; the file holds the credential of r1 and
\* the one r2 wrote is lost.
C15_Witness ==
    /\ \A r \in Requests : Renewed(r) /\ wrote[r]
    /\ tokenPickle = creds["r1"]
    /\ tokenPickle # creds["r2"]

\* C16: under FairSpec every received request ends with a response, which
\* is set once and never changed; the chunk loop runs while there is no
\* completion response and only a completed transfer leaves it for the
\* permission step.
C16_Step ==
    \A r \in Requests :
       /\ resp[r].status # 0 => resp'[r] = resp[r] /\ pc'[r] = "done"
       /\ pc[r] = "upload" /\ pc'[r] = "upload" /\ ops'[r] # ops[r]
          => response'[r] = "" /\ chunks'[r] >= 1
       /\ pc[r] = "upload" /\ pc'[r] = "make_public"
          => /\ response'[r] # ""
             /\ \E o \in remote' : o.id = response'[r]

C16_EveryRequestAnswered ==
    /\ \A r \in Requests : (pc[r] # "idle") ~> Done(r)
    /\ [][C16_Step]_vars
    /\ [](\A r \in Requests :
             /\ Done(r) <=> resp[r].status # 0
             /\ pc[r] = "upload" => response[r] = "" /\ chunks[r] >= 1
             /\ "permission" \in ops[r]
                   => /\ response[r] # "" /\ chunks[r] = 0
                      /\ \E o \in remote : o.id = response[r])

\* One request went through the whole loop and was answered, the other is
\* in the loop after an intermediate result.
C16_Witness ==
    \E r, q \in Requests :
       /\ Done(r) /\ resp[r].status = Ok
       /\ pc[q] = "upload" /\ "upload" \in ops[q] /\ chunks[q] = 1

====
